---- MODULE Spec2Model ----
(***************************************************************************)
(* The SnakemakeMagic adapter of "snakemake magic.ipynb": one session      *)
(* object holding a lazily created workflow handle, and the magics         *)
(* %%sinclude, %%sconfig, %snakemake and %_workflow.  The workflow engine  *)
(* (snakemake.workflow.Workflow) is external; the part of it the adapter   *)
(* calls (constructor, include, check, execute, the config mapping) is     *)
(* modelled at the places where the adapter calls it.                      *)
(***************************************************************************)
EXTENDS Integers, Sequences, FiniteSets, TLC

VARIABLES
    workflow,     \* self.workflow: NoWorkflow or the identity of the Workflow object
    created,      \* number of Workflow objects constructed in the session
    tempfiles,    \* self.tempfiles: [cells: the file names appended by sinclude]
    rootFile,     \* TRUE while the root NamedTemporaryFile exists (it is kept open)
    files,        \* the cell/config temporary files that exist on disk
    nfiles,       \* number of cell/config temporary files created so far (fresh names)
    rules,        \* workflow._rules: ordered table of [name, defn]; defn is the snakefile
    first_rule,   \* workflow.first_rule: the engine's default target
    config,       \* snakemake.workflow.config: the engine's configuration mapping
    cfgLog,       \* history: the mappings of the sconfig calls that completed, in order
    last          \* the last magic invoked: its input, its outcome and the engine calls made

vars == <<workflow, created, tempfiles, rootFile, files, nfiles, rules,
          first_rule, config, cfgLog, last>>

----------------------------------------------------------------------------
(* Bounds and input domains *)

MaxFiles == 2        \* temporary cell/config files created in one session

NoWorkflow == 0      \* workflow = None
GreedMin == 0        \* greediness lower limit 0, in tenths
GreedMax == 10       \* greediness upper limit 1.0, in tenths

NoRule == "None"

RuleNames == {"test_1", "word_count", "text_file_2"}
Keys == {"foo", "one"}
Vals == {"bar", "two"}

\* the rules a cell defines, in order: none, one, two, or the same name twice
CellNames == {<<>>, <<"test_1">>, <<"word_count">>, <<"text_file_2">>,
              <<"test_1", "word_count">>, <<"text_file_2", "test_1">>,
              <<"word_count", "word_count">>}

\* a cell of snakefile text: the rules it defines, in order, and whether the text
\* fails to parse ("syntax") or raises after its rules were defined ("runtime")
Cells == [names : CellNames, err : {"none", "syntax", "runtime"}]

\* the mappings of the configuration cells: foo is given either value, one is
\* only ever given the value two
Dicts == {f \in UNION {[S -> Vals] : S \in SUBSET Keys} :
             "one" \in DOMAIN f => f["one"] = "two"}

\* a cell of configuration text: a mapping, valid text that is no mapping, or
\* text that is neither JSON nor YAML
ConfigCells == [kind : {"dict"}, data : Dicts]
               \cup [kind : {"nondict", "invalid"}, data : {<<>>}]

\* args.greediness: None when the flag is absent, else a float (here in tenths)
NoGreediness == [given |-> FALSE, value |-> 0]
Greed(v) == [given |-> TRUE, value |-> v]

\* argument lines of %snakemake that parse, as the parsed args: the targets named,
\* --nolock, --greediness
Args(targets, nolock, greediness) ==
    [target |-> targets, nolock |-> nolock, greediness |-> greediness]
ArgLines == {Args(<<>>, FALSE, NoGreediness),
             Args(<<"date.txt.wc">>, FALSE, NoGreediness),
             Args(<<>>, TRUE, NoGreediness),
             Args(<<>>, FALSE, Greed(0)),
             Args(<<"date.txt.wc">>, TRUE, Greed(10)),
             Args(<<>>, FALSE, Greed(-1)),
             Args(<<"date.txt.wc">>, TRUE, Greed(11))}
CheckOutcomes == {"ok", "UnknownRuleException"}
ExecuteOutcomes == {"True", "False", "WorkflowError"}

NoExec == [called |-> FALSE, targets |-> <<>>, nolock |-> FALSE, config |-> <<>>,
           result |-> "None"]

NoCall == [op |-> "none", kind |-> "none", value |-> "None", count |-> 0,
           before |-> 0, names |-> <<>>, cellErr |-> "none", known |-> {},
           data |-> <<>>, parsed |-> FALSE, check |-> "None",
           greediness |-> NoGreediness, nolockFlag |-> FALSE, targets |-> <<>>,
           calls |-> <<>>, log |-> <<>>, exec |-> NoExec]

----------------------------------------------------------------------------
(* The world the magics act on, as one record *)

World == [workflow |-> workflow, created |-> created, tempfiles |-> tempfiles,
          rootFile |-> rootFile, files |-> files, nfiles |-> nfiles,
          rules |-> rules, first_rule |-> first_rule, config |-> config,
          err |-> "none"]

Commit(w) ==
    /\ workflow' = w.workflow
    /\ created' = w.created
    /\ tempfiles' = w.tempfiles
    /\ rootFile' = w.rootFile
    /\ files' = w.files
    /\ nfiles' = w.nfiles
    /\ rules' = w.rules
    /\ first_rule' = w.first_rule
    /\ config' = w.config

RuleNamesOf(rs) == {rs[i].name : i \in 1..Len(rs)}

----------------------------------------------------------------------------
(* get_workflow, and the engine's Workflow constructor it calls *)

\* Workflow(snakefile=...): a new workflow object with an empty rule table and no
\* first rule; the constructor rebinds the module's config to an empty mapping
NewWorkflow(w) ==
    [w EXCEPT !.workflow = w.created + 1,
              !.created = w.created + 1,
              !.rules = <<>>,
              !.first_rule = NoRule,
              !.config = <<>>]

GetWorkflowAlwaysNew(w) == NewWorkflow([w EXCEPT !.rootFile = TRUE])

\* get_workflow: the workflow object is made, with its root file, only when
\* self.workflow is None
GetWorkflow(w) ==
    IF w.workflow = NoWorkflow
    THEN NewWorkflow([w EXCEPT !.rootFile = TRUE])
    ELSE w

----------------------------------------------------------------------------
(* The engine's include, as sinclude calls it *)

\* Workflow.add_rule: a name already in the table is refused; the first rule
\* added while no first rule is set becomes the first rule
AddRule(w, name, snakefile) ==
    IF name \in RuleNamesOf(w.rules)
    THEN [w EXCEPT !.err = "CreateRuleException"]
    ELSE [w EXCEPT !.rules = Append(w.rules, [name |-> name, defn |-> snakefile]),
                   !.first_rule = IF w.first_rule = NoRule THEN name ELSE w.first_rule]

\* executing the compiled cell: its rules are added in order until one is refused
RECURSIVE ExecRules(_, _, _)
ExecRules(w, names, snakefile) ==
    IF names = <<>> \/ w.err # "none" THEN w
    ELSE ExecRules(AddRule(w, Head(names), snakefile), Tail(names), snakefile)

\* Workflow.include(snakefile, overwrite_first_rule): parse, execute, then put the
\* previous first rule back unless asked to overwrite it; an exception leaves
\* what was done so far
Include(w, cell, snakefile, overwrite_first_rule) ==
    IF cell.err = "syntax" THEN [w EXCEPT !.err = "SyntaxError"]
    ELSE LET x == ExecRules(w, cell.names, snakefile)
         IN IF x.err # "none" THEN x
            ELSE IF cell.err = "runtime" THEN [x EXCEPT !.err = "NameError"]
            ELSE IF overwrite_first_rule THEN x
            ELSE [x EXCEPT !.first_rule = w.first_rule]

----------------------------------------------------------------------------
(* %%sinclude *)

\* tempfile.NamedTemporaryFile('w', delete=False): a file of a fresh name
CreateTemp(w) ==
    [w EXCEPT !.nfiles = w.nfiles + 1, !.files = w.files \cup {w.nfiles + 1}]

Unlink(w, f) == [w EXCEPT !.files = w.files \ {f}]

SincludeIncludeNeverFirst(w, cell, f) == Include(w, cell, f, FALSE)

\* overwrite_first_rule = len(workflow._rules) == 0; workflow.include(...)
SincludeInclude(w, cell, f) == Include(w, cell, f, Len(w.rules) = 0)

SincludeResultCells(w) == Len(w.tempfiles.cells)

\* "Workflow now has {} rules".format(len(workflow._rules))
SincludeResult(w) == Len(w.rules)

Sinclude(cell) ==
    /\ nfiles < MaxFiles
    /\ LET w1 == GetWorkflow(World)
           f  == w1.nfiles + 1
           w2 == CreateTemp(w1)
           w3 == [w2 EXCEPT !.tempfiles.cells = Append(w2.tempfiles.cells, f)]
           w4 == SincludeInclude(w3, cell, f)
           w5 == IF w4.err = "none" THEN Unlink(w4, f) ELSE w4
       IN /\ Commit(w5)
          /\ UNCHANGED cfgLog
          /\ last' = [NoCall EXCEPT
                        !.op = "sinclude",
                        !.names = cell.names,
                        !.cellErr = cell.err,
                        !.known = {cell.names[i] : i \in 1..Len(cell.names)}
                                  \cap RuleNamesOf(w1.rules),
                        !.before = Len(w1.rules),
                        !.calls = <<"include">>,
                        !.kind = IF w5.err = "none" THEN "return" ELSE "raise",
                        !.value = IF w5.err = "none"
                                  THEN "Workflow now has {} rules" ELSE w5.err,
                        !.count = IF w5.err = "none" THEN SincludeResult(w5) ELSE 0]

----------------------------------------------------------------------------
(* %%sconfig *)

\* load_configfile: the text as a mapping; text that is not JSON or YAML, or
\* that is no mapping at top level, raises
LoadConfigfileOk(cell) == cell.kind = "dict"

ConfigReplace(cfg, d) == d

\* dict.update: keys of d take d's values, the other keys keep theirs
ConfigUpdate(cfg, d) ==
    [k \in (DOMAIN cfg) \cup (DOMAIN d) |-> IF k \in DOMAIN d THEN d[k] ELSE cfg[k]]

Sconfig(cell) ==
    /\ nfiles < MaxFiles
    /\ LET w1 == GetWorkflow(World)
           f  == w1.nfiles + 1
           w2 == CreateTemp(w1)
           w3 == IF LoadConfigfileOk(cell)
                 THEN Unlink([w2 EXCEPT !.config = ConfigUpdate(w2.config, cell.data)], f)
                 ELSE [w2 EXCEPT !.err = "WorkflowError"]
       IN /\ Commit(w3)
          /\ cfgLog' = IF w3.err = "none" THEN Append(cfgLog, cell.data) ELSE cfgLog
          /\ last' = [NoCall EXCEPT
                        !.op = "sconfig",
                        !.data = cell.data,
                        !.calls = <<"load_configfile">>,
                        !.kind = IF w3.err = "none" THEN "return" ELSE "raise",
                        !.value = IF w3.err = "none" THEN "None" ELSE w3.err]

----------------------------------------------------------------------------
(* %_workflow *)

WorkflowMagic ==
    /\ Commit(GetWorkflow(World))
    /\ UNCHANGED cfgLog
    /\ last' = [NoCall EXCEPT !.op = "_workflow", !.kind = "return", !.value = "workflow"]

----------------------------------------------------------------------------
(* %snakemake *)

GreedinessValidNoLowerLimit(g) == ~g.given \/ g.value <= GreedMax

\* greediness is None, or 0 <= greediness <= 1.0
GreedinessValid(g) == ~g.given \/ (GreedMin <= g.value /\ g.value <= GreedMax)

ExecuteNolockFromFlag(nolockFlag) == LET lock == ~nolockFlag IN ~lock

\* lock = not args.nolock; later lock = False; execute(nolock=not lock)
ExecuteNolock(nolockFlag) ==
    LET lock0 == ~nolockFlag
        lock  == FALSE
    IN ~lock

\* Workflow.execute: with no target named, the engine's target is the first rule
ExecuteTargets(w, targets) ==
    IF targets # <<>> THEN targets
    ELSE IF w.first_rule # NoRule THEN <<w.first_rule>> ELSE <<>>

SnakemakeReturnTrue(success) == "True"

\* return success
SnakemakeReturn(success) == success

\* workflow.check() and then workflow.execute(...); a check that raises ends the call
EngineCalls(chk, exe) == IF chk = "ok" THEN <<"check", "execute">> ELSE <<"check">>

\* the part of snakemake after the arguments were parsed and found valid
SnakemakeRun(call, targets, chk, exe) ==
    LET w1 == GetWorkflow(World)
        calls == EngineCalls(chk, exe)
        executed == Len(calls) > 0 /\ calls[Len(calls)] = "execute"
    IN /\ Commit(w1)
       /\ UNCHANGED cfgLog
       /\ last' = [call EXCEPT
                     !.calls = calls,
                     !.check = chk,
                     !.exec = IF executed
                              THEN [called |-> TRUE,
                                    targets |-> ExecuteTargets(w1, targets),
                                    nolock |-> ExecuteNolock(call.nolockFlag),
                                    config |-> w1.config,
                                    result |-> exe]
                              ELSE NoExec,
                     !.kind = IF executed /\ exe \in {"True", "False"}
                              THEN "return" ELSE "raise",
                     !.value = IF executed THEN
                                  (IF exe \in {"True", "False"}
                                   THEN SnakemakeReturn(exe) ELSE exe)
                               ELSE chk]

Snakemake ==
    IF workflow = NoWorkflow
    THEN \* raise Exception("Workflow has no data!")
         /\ last' = [NoCall EXCEPT !.op = "snakemake", !.kind = "raise",
                                   !.value = "Workflow has no data!"]
         /\ UNCHANGED <<workflow, created, tempfiles, rootFile, files, nfiles,
                        rules, first_rule, config, cfgLog>>
    ELSE \E parsed \in BOOLEAN :
         IF ~parsed
         THEN \* parser.parse_args (SystemExit) or parse_resources (ValueError)
              \* refuses the argument string
              /\ last' = [NoCall EXCEPT !.op = "snakemake", !.kind = "raise",
                                        !.value = "ArgumentError"]
              /\ UNCHANGED <<workflow, created, tempfiles, rootFile, files, nfiles,
                             rules, first_rule, config, cfgLog>>
         ELSE \E args \in ArgLines :
              IF ~GreedinessValid(args.greediness)
              THEN /\ last' = [NoCall EXCEPT
                                 !.op = "snakemake", !.parsed = TRUE,
                                 !.greediness = args.greediness,
                                 !.nolockFlag = args.nolock, !.targets = args.target,
                                 !.kind = "return", !.value = "False",
                                 !.log = <<"Error: greediness must be a float between 0 and 1.">>]
                   /\ UNCHANGED <<workflow, created, tempfiles, rootFile, files, nfiles,
                                  rules, first_rule, config, cfgLog>>
              ELSE \E chk \in CheckOutcomes :
                   \E exe \in (IF chk = "ok" THEN ExecuteOutcomes ELSE {"True"}) :
                      SnakemakeRun([NoCall EXCEPT !.op = "snakemake", !.parsed = TRUE,
                                                  !.greediness = args.greediness,
                                                  !.nolockFlag = args.nolock,
                                                  !.targets = args.target],
                                   args.target, chk, exe)

----------------------------------------------------------------------------
(* The session *)

Init ==
    /\ workflow = NoWorkflow
    /\ created = 0
    /\ tempfiles = [cells |-> <<>>]
    /\ rootFile = FALSE
    /\ files = {}
    /\ nfiles = 0
    /\ rules = <<>>
    /\ first_rule = NoRule
    /\ config = <<>>
    /\ cfgLog = <<>>
    /\ last = NoCall

SincludeStep == \E cell \in Cells : Sinclude(cell)

SconfigStep == \E cell \in ConfigCells : Sconfig(cell)

Next == SincludeStep \/ SconfigStep \/ Snakemake \/ WorkflowMagic

Spec == Init /\ [][Next]_vars

----------------------------------------------------------------------------
(* Helpers of the properties *)

IsPrefix(s, t) == Len(s) <= Len(t) /\ SubSeq(t, 1, Len(s)) = s

NamesIn(names) == {names[i] : i \in 1..Len(names)}

EntriesNamed(n) == {i \in 1..Len(rules) : rules[i].name = n}

\* the calls of cfgLog that set key k
SettersOf(k) == {i \in 1..Len(cfgLog) : k \in DOMAIN cfgLog[i]}

LatestSetter(k) == CHOOSE i \in SettersOf(k) : \A j \in SettersOf(k) : j <= i

SnakemakeValidated ==
    last.op = "snakemake" /\ last.parsed /\ GreedinessValid(last.greediness)

GreedinessOutside(g) == g.given /\ (g.value < GreedMin \/ g.value > GreedMax)

----------------------------------------------------------------------------
(* C1 *)

C1_Completed == last.op = "sinclude" /\ last.kind = "return"

C1_CountInv ==
    C1_Completed =>
        /\ last.count = Len(rules)
        /\ last.count = last.before + Len(last.names)
        /\ \A i \in 1..Len(last.names) :
              rules[last.before + i] = [name |-> last.names[i], defn |-> nfiles]

C1_CountStep ==
    /\ last'.op \in {"sconfig", "snakemake", "_workflow"} => Len(rules') = Len(rules)
    /\ last'.op = "sinclude" /\ last'.kind = "return" =>
          /\ last'.before = Len(rules)
          /\ IsPrefix(rules, rules')

\* C1: a sinclude call that completes reports the rule count after the call, which
\* is the count before the call plus the number of rules the cell defines (the
\* cell's rules are the new last entries of the table); sconfig, snakemake and
\* _workflow steps leave the count as it is.
C1_ReportsRuleCount == []C1_CountInv /\ [][C1_CountStep]_vars

\* three rules reported after a call that found one or two and added the rest
C1_Witness ==
    /\ C1_Completed
    /\ last.count = 3
    /\ last.before \in {1, 2}
    /\ Len(last.names) = 3 - last.before

----------------------------------------------------------------------------
(* C2 *)

C2_Redefines == last.op = "sinclude" /\ last.cellErr = "none" /\ last.known # {}

\* C2: a sinclude call whose cell defines a rule of a name already defined by an
\* earlier call completes, and the table then holds exactly one rule of that name,
\* carrying the later definition.
C2_LaterReplacesEarlier ==
    C2_Redefines =>
        /\ last.kind = "return"
        /\ \A n \in last.known :
              /\ Cardinality(EntriesNamed(n)) = 1
              /\ \A i \in EntriesNamed(n) : rules[i].defn = nfiles

----------------------------------------------------------------------------
(* C3 *)

\* C3 as claimed: snakemake invoked while the rule table is empty raises and
\* reaches neither the engine's check nor its execute.
C3_NoRulesRaises ==
    (last.op = "snakemake" /\ Len(rules) = 0) =>
        (last.kind = "raise" /\ last.calls = <<>> /\ ~last.exec.called)

----------------------------------------------------------------------------
(* C4 *)

C4_RejectInv ==
    (last.op = "snakemake" /\ last.parsed) =>
        /\ GreedinessOutside(last.greediness) =>
              /\ last.kind = "return"
              /\ last.value = "False"
              /\ last.log = <<"Error: greediness must be a float between 0 and 1.">>
              /\ last.calls = <<>>
              /\ ~last.exec.called
        /\ ~GreedinessOutside(last.greediness) =>
              /\ last.log = <<>>
              /\ last.calls # <<>>
              /\ Head(last.calls) = "check"

C4_RejectStep ==
    (last'.op = "snakemake" /\ last'.log # <<>>) =>
        UNCHANGED <<workflow, created, rules, first_rule, config>>

\* C4: with a workflow handle present and the arguments parsed, a greediness
\* outside 0..1 makes snakemake log the error and return False without any engine
\* call, leaving handle, rule table and configuration as they were; a greediness
\* inside 0..1, or none, is not rejected: the engine's check is reached.
C4_GreedinessRejected == []C4_RejectInv /\ [][C4_RejectStep]_vars

C4_Witness ==
    /\ last.op = "snakemake"
    /\ last.parsed
    /\ last.greediness = Greed(11)
    /\ last.value = "False"
    /\ Len(rules) > 0

----------------------------------------------------------------------------
(* C5 *)

\* C5: a validated snakemake call calls check first and once; when check returns
\* it calls execute once, and returns exactly execute's value; an exception of
\* check (then execute is not called) or of execute is what the call raises.
C5_CheckExecuteReturn ==
    SnakemakeValidated =>
        /\ last.calls = IF last.check = "ok" THEN <<"check", "execute">> ELSE <<"check">>
        /\ last.exec.called = (last.check = "ok")
        /\ (last.check = "ok" /\ last.exec.result \in {"True", "False"}) =>
              (last.kind = "return" /\ last.value = last.exec.result)
        /\ (last.check = "ok" /\ last.exec.result \notin {"True", "False"}) =>
              (last.kind = "raise" /\ last.value = last.exec.result)
        /\ last.check # "ok" => (last.kind = "raise" /\ last.value = last.check)

C5_Witness ==
    /\ SnakemakeValidated
    /\ last.calls = <<"check", "execute">>
    /\ last.kind = "return"
    /\ last.value = "False"

----------------------------------------------------------------------------
(* C6 *)

C6_MergedInv ==
    /\ \A k \in Keys :
          IF SettersOf(k) = {} THEN k \notin DOMAIN config
          ELSE k \in DOMAIN config /\ config[k] = cfgLog[LatestSetter(k)][k]
    /\ (last.op = "snakemake" /\ last.exec.called) => last.exec.config = config

C6_FrameStep ==
    last'.op = "sconfig" =>
        /\ rules' = rules
        /\ first_rule' = first_rule
        /\ (last'.kind = "return" /\ cfgLog' # cfgLog) =>
              \A k \in DOMAIN config \ DOMAIN last'.data :
                  k \in DOMAIN config' /\ config'[k] = config[k]

\* C6: each key of the configuration maps to the value of the latest completed
\* sconfig call that set it, and keys no call set are absent; a call keeps the
\* keys it does not mention; execute runs with this configuration; sconfig leaves
\* the rule table, the rule count and the first rule unchanged.
C6_ConfigMerged == []C6_MergedInv /\ [][C6_FrameStep]_vars

\* a second sconfig call changed foo and left one as the first call set it
C6_Witness ==
    /\ Len(cfgLog) = 2
    /\ DOMAIN cfgLog[1] = {"foo", "one"}
    /\ DOMAIN cfgLog[2] = {"foo"}
    /\ cfgLog[2]["foo"] # cfgLog[1]["foo"]
    /\ config["one"] = cfgLog[1]["one"]
    /\ last.op = "snakemake"
    /\ last.exec.called

----------------------------------------------------------------------------
(* C7 *)

C7_FirstInv ==
    /\ Len(rules) > 0 => first_rule = rules[1].name
    /\ (last.op = "snakemake" /\ last.exec.called /\ last.targets = <<>> /\ Len(rules) > 0)
          => last.exec.targets = <<rules[1].name>>

C7_FirstStep ==
    /\ first_rule # NoRule => first_rule' = first_rule
    /\ Len(rules) > 0 => (Len(rules') > 0 /\ rules'[1] = rules[1])

\* C7: the engine's first rule is the first rule ever defined; once set, no step
\* changes it; snakemake with no target named asks for that rule only.
C7_DefaultTargetIsFirstRule == []C7_FirstInv /\ [][C7_FirstStep]_vars

C7_Witness ==
    /\ Len(rules) = 3
    /\ rules[1].defn < rules[3].defn
    /\ last.op = "snakemake"
    /\ last.exec.called
    /\ last.targets = <<>>
    /\ last.exec.targets = <<rules[1].name>>

----------------------------------------------------------------------------
(* C8 *)

\* C8 as claimed: between operations no temporary cell or configuration file
\* exists, whether the operation that made it completed or raised.
C8_NoTempFileLeft == files = {}

----------------------------------------------------------------------------
(* C9 *)

C9_HandleInv ==
    /\ created <= 1
    /\ (workflow = NoWorkflow) = (created = 0)
    /\ workflow = NoWorkflow => (last.op \in {"none", "snakemake"} /\ rootFile = FALSE)

C9_HandleStep ==
    /\ workflow # NoWorkflow => (workflow' = workflow /\ IsPrefix(rules, rules'))
    /\ last'.op = "snakemake" => (workflow' = workflow /\ created' = created)
    /\ (workflow = NoWorkflow /\ last'.op \in {"sinclude", "sconfig", "_workflow"}) =>
          (workflow' # NoWorkflow /\ created' = 1)

\* C9: the handle is absent until the first sinclude, sconfig or _workflow call,
\* which creates it; it is created once in a session, never replaced or reset,
\* never created by snakemake, and the rule table of the one workflow only grows.
C9_SingleLazyHandle == []C9_HandleInv /\ [][C9_HandleStep]_vars

C9_Witness ==
    /\ workflow # NoWorkflow
    /\ created = 1
    /\ nfiles = 2
    /\ Len(rules) >= 2
    /\ rules[1].defn = 1
    /\ rules[Len(rules)].defn = 2
    /\ last.op = "snakemake"
    /\ last.exec.called

----------------------------------------------------------------------------
(* C10 *)

\* C10: every execute call made by snakemake is passed nolock = True, with or
\* without --nolock in the argument line.
C10_ExecuteNeverLocks == last.exec.called => last.exec.nolock = TRUE

C10_Witness ==
    /\ last.op = "snakemake"
    /\ last.exec.called
    /\ last.nolockFlag = FALSE
    /\ last.exec.nolock = TRUE

====
